---- MODULE Spec2Model ----
(***************************************************************************)
(* Model of the ELF header decoder of relf (src/src/parser.rs).            *)
(*                                                                         *)
(* The decoder is two pure functions over a byte slice:                    *)
(*   EIdent::from_bytes     (parser.rs 139-203)                            *)
(*   ElfHeader::from_bytes  (parser.rs 332-422)                            *)
(* A state holds the slice handed to the decoder, which of the two         *)
(* functions was called, what it returned and what it wrote to stderr.     *)
(*                                                                         *)
(* Representation                                                          *)
(*  - a byte slice is a sequence over 0..255; Rust index i is position     *)
(*    i + 1 of the sequence;                                               *)
(*  - a Result is a record: Ok(v), Err(kind, line) where line is the       *)
(*    source line of the return statement that produced the error, or      *)
(*    Panic for an out-of-range index or slice (Rust's bounds check);      *)
(*  - u16 values are integers; u32 and u64 values do not fit the 32-bit    *)
(*    integers of the model checker and are kept as sequences of 16-bit    *)
(*    limbs, most significant limb first: 0x12345678 as a u64 is           *)
(*    <<0, 0, 4660, 22136>>   (4660 = 0x1234, 22136 = 0x5678).             *)
(***************************************************************************)
EXTENDS Integers, Sequences, FiniteSets, TLC

VARIABLES bytes, pc, callee, result, stderr

vars == <<bytes, pc, callee, result, stderr>>

\* Longest slice handed to the decoder (the header itself is 64 bytes).
MaxLen == 65

Byte == 0..255

----------------------------------------------------------------------------
\* Result values

Ok(v) == [tag |-> "Ok", val |-> v]

Err(kind, line) == [tag |-> "Err", err |-> kind, line |-> line]

Panic == [tag |-> "Panic"]

NoResult == [tag |-> "None"]

\* enum ElfParseError
ElfParseError ==
  {"InvalidSize", "InvalidMagic", "InvalidClass", "InvalidData",
   "InvalidVersion", "InvalidOsAbi", "InvalidType", "InvalidMachine",
   "ReservedOsAbi", "IoError"}

----------------------------------------------------------------------------
\* Slice access: bytes[i] and bytes[lo..hi] panic when out of range.

IndexOk(b, i) == i < Len(b)

SliceOk(b, lo, hi) == lo <= hi /\ hi <= Len(b)

Index(b, i) == b[i + 1]

Slice(b, lo, hi) == SubSeq(b, lo + 1, hi)

----------------------------------------------------------------------------
\* Integer decoding

u16_from_le_bytes(a) == a[1] + 256 * a[2]

u32_from_le_bytes(a) == <<a[3] + 256 * a[4], a[1] + 256 * a[2]>>

u64_from_le_bytes_be(a) ==
  <<a[1] * 256 + a[2], a[3] * 256 + a[4], a[5] * 256 + a[6], a[7] * 256 + a[8]>>

u64_from_le_bytes(a) ==
  <<a[7] + 256 * a[8], a[5] + 256 * a[6], a[3] + 256 * a[4], a[1] + 256 * a[2]>>

----------------------------------------------------------------------------
\* EIdent::from_bytes

ELFMAG == <<127, 69, 76, 70>>

EIdent_too_short_8(b) == Len(b) < 8

EIdent_too_short(b) == Len(b) < 16

magic_mismatch_elf_only(b) == Slice(b, 1, 4) # <<69, 76, 70>>

magic_mismatch(b) == Slice(b, 0, 4) # ELFMAG

match_class(x) ==
  CASE x = 1 -> Ok("ELFCLASS32")
    [] x = 2 -> Ok("ELFCLASS64")
    [] OTHER -> Err("InvalidClass", 155)

match_data_lsb_only(x) ==
  CASE x = 1 -> Ok("ELFDATA2LSB")
    [] OTHER -> Err("InvalidData", 161)

match_data(x) ==
  CASE x = 1 -> Ok("ELFDATA2LSB")
    [] x = 2 -> Ok("ELFDATA2MSB")
    [] OTHER -> Err("InvalidData", 161)

match_ident_version_as_data(x) ==
  CASE x = 0 -> Ok("EvNone")
    [] x = 1 -> Ok("EvCurrent")
    [] OTHER -> Err("InvalidData", 167)

match_ident_version(x) ==
  CASE x = 0 -> Ok("EvNone")
    [] x = 1 -> Ok("EvCurrent")
    [] OTHER -> Err("InvalidVersion", 167)

OsAbiArm(x) ==
  CASE x = 0 -> Ok("NONE")
    [] x = 1 -> Ok("HPUX")
    [] x = 2 -> Ok("NETBSD")
    [] x = 3 -> Ok("GNU")
    [] x = 6 -> Ok("SOLARIS")
    [] x = 7 -> Ok("AIX")
    [] x = 8 -> Ok("IRIX")
    [] x = 9 -> Ok("FREEBSD")
    [] x = 10 -> Ok("TRU64")
    [] x = 11 -> Ok("MODESTO")
    [] x = 12 -> Ok("OPENBSD")
    [] x = 13 -> Ok("OPENVMS")
    [] x = 14 -> Ok("NSK")
    [] x = 15 -> Ok("AROS")
    [] x = 16 -> Ok("FENIXOS")
    [] x = 17 -> Ok("CLOUDABI")
    [] x = 18 -> Ok("OPENVOS")
    [] x = 255 -> Ok("STANDALONE")

match_os_abi_catch_all(x) ==
  CASE x \in 4..5 -> Err("ReservedOsAbi", 175)
    [] x \in 19..254 -> Err("InvalidOsAbi", 189)
    [] OTHER -> OsAbiArm(x)

match_os_abi(x) ==
  CASE x \in 4..5 -> Err("ReservedOsAbi", 175)
    [] x \in 19..254 -> Err("ReservedOsAbi", 189)
    [] OTHER -> OsAbiArm(x)

EIdent_from_bytes(b) ==
  IF EIdent_too_short(b) THEN Err("InvalidSize", 141)
  ELSE IF ~SliceOk(b, 0, 4) THEN Panic
  ELSE IF magic_mismatch(b) THEN Err("InvalidMagic", 146)
  ELSE IF ~IndexOk(b, 4) THEN Panic
  ELSE LET class == match_class(Index(b, 4)) IN
  IF class.tag = "Err" THEN class
  ELSE IF ~IndexOk(b, 5) THEN Panic
  ELSE LET data == match_data(Index(b, 5)) IN
  IF data.tag = "Err" THEN data
  ELSE IF ~IndexOk(b, 6) THEN Panic
  ELSE LET version == match_ident_version(Index(b, 6)) IN
  IF version.tag = "Err" THEN version
  ELSE IF ~IndexOk(b, 7) THEN Panic
  ELSE LET os_abi == match_os_abi(Index(b, 7)) IN
  IF os_abi.tag = "Err" THEN os_abi
  ELSE IF ~IndexOk(b, 8) THEN Panic
  ELSE Ok([magic |-> Slice(b, 0, 4),
           class |-> class.val,
           data |-> data.val,
           version |-> version.val,
           os_abi |-> os_abi.val,
           abi_version |-> Index(b, 8)])

----------------------------------------------------------------------------
\* Enumeration discriminants and labels (enum declarations and Display impls)

IdentOSABI_repr(t) ==
  CASE t = "NONE" -> 0
    [] t = "HPUX" -> 1
    [] t = "NETBSD" -> 2
    [] t = "GNU" -> 3
    [] t = "SOLARIS" -> 6
    [] t = "AIX" -> 7
    [] t = "IRIX" -> 8
    [] t = "FREEBSD" -> 9
    [] t = "TRU64" -> 10
    [] t = "MODESTO" -> 11
    [] t = "OPENBSD" -> 12
    [] t = "OPENVMS" -> 13
    [] t = "NSK" -> 14
    [] t = "AROS" -> 15
    [] t = "FENIXOS" -> 16
    [] t = "CLOUDABI" -> 17
    [] t = "OPENVOS" -> 18
    [] t = "STANDALONE" -> 255

IdentOSABI_fmt(t) ==
  CASE t = "NONE" -> "No extensions or unspecified"
    [] t = "HPUX" -> "HP-UX"
    [] t = "NETBSD" -> "NetBSD"
    [] t = "GNU" -> "GNU"
    [] t = "SOLARIS" -> "Solaris"
    [] t = "AIX" -> "AIX"
    [] t = "IRIX" -> "IRIX"
    [] t = "FREEBSD" -> "FreeBSD"
    [] t = "TRU64" -> "Tru64"
    [] t = "MODESTO" -> "Novell Modesto"
    [] t = "OPENBSD" -> "OpenBSD"
    [] t = "OPENVMS" -> "OpenVMS"
    [] t = "NSK" -> "NonStop Kernel"
    [] t = "AROS" -> "AROS"
    [] t = "FENIXOS" -> "FenixOS"
    [] t = "CLOUDABI" -> "CloudABI"
    [] t = "OPENVOS" -> "Stratus Technologies OpenVOS"
    [] t = "STANDALONE" -> "Standalone (embedded) application"

ElfMachine_repr(t) ==
  CASE t = "EmNone" -> 0
    [] t = "EmM32" -> 1
    [] t = "EmSparc" -> 2
    [] t = "Em386" -> 3
    [] t = "Em68k" -> 4
    [] t = "Em88k" -> 5
    [] t = "Em860" -> 7
    [] t = "EmMips" -> 8
    [] t = "EmS370" -> 9
    [] t = "EmMipsRs3Le" -> 10
    [] t = "EmParisc" -> 15
    [] t = "EmVpp500" -> 17
    [] t = "EmSparc32Plus" -> 18
    [] t = "Em960" -> 19
    [] t = "EmPpc" -> 20
    [] t = "EmPpc64" -> 21
    [] t = "EmS390" -> 22
    [] t = "EmX8664" -> 62
    [] t = "EmAarch64" -> 183
    [] t = "EmRiscv" -> 243
    [] t = "EmLoProc" -> 65280
    [] t = "EmHiProc" -> 65535

ElfMachine_fmt(t) ==
  CASE t = "EmNone" -> "No machine"
    [] t = "EmM32" -> "AT&T WE 32100"
    [] t = "EmSparc" -> "SPARC"
    [] t = "Em386" -> "Intel 80386"
    [] t = "Em68k" -> "Motorola 68000"
    [] t = "Em88k" -> "Motorola 88000"
    [] t = "Em860" -> "Intel 80860"
    [] t = "EmMips" -> "MIPS I Architecture"
    [] t = "EmS370" -> "IBM System/370 Processor"
    [] t = "EmMipsRs3Le" -> "MIPS RS3000 Little-endian"
    [] t = "EmParisc" -> "Hewlett-Packard PA-RISC"
    [] t = "EmVpp500" -> "Fujitsu VPP500"
    [] t = "EmSparc32Plus" -> "Enhanced instruction set SPARC"
    [] t = "Em960" -> "Intel 80960"
    [] t = "EmPpc" -> "PowerPC"
    [] t = "EmPpc64" -> "PowerPC64"
    [] t = "EmS390" -> "IBM System/390 Processor"
    [] t = "EmX8664" -> "AMD x86-64 architecture"
    [] t = "EmAarch64" -> "ARM AARCH64"
    [] t = "EmRiscv" -> "RISC-V"
    [] t = "EmLoProc" -> "Processor-specific (low)"
    [] t = "EmHiProc" -> "Processor-specific (high)"

----------------------------------------------------------------------------
\* ElfHeader::from_bytes

ElfHeader_too_short_63(b) == Len(b) < 63

ElfHeader_too_short(b) == Len(b) < 64

match_e_type(v) ==
  CASE v = 0 -> Ok("EtNone")
    [] v = 1 -> Ok("EtRel")
    [] v = 2 -> Ok("EtExec")
    [] v = 3 -> Ok("EtDyn")
    [] v = 4 -> Ok("EtCore")
    [] v = 65280 -> Ok("EtLoProc")
    [] v = 65535 -> Ok("EtHiProc")
    [] OTHER -> Err("InvalidType", 347)

match_machine_no_riscv(v) ==
  CASE v = 0 -> Ok("EmNone")
    [] v = 1 -> Ok("EmM32")
    [] v = 2 -> Ok("EmSparc")
    [] v = 3 -> Ok("Em386")
    [] v = 4 -> Ok("Em68k")
    [] v = 5 -> Ok("Em88k")
    [] v = 7 -> Ok("Em860")
    [] v = 8 -> Ok("EmMips")
    [] v = 9 -> Ok("EmS370")
    [] v = 10 -> Ok("EmMipsRs3Le")
    [] v = 15 -> Ok("EmParisc")
    [] v = 17 -> Ok("EmVpp500")
    [] v = 18 -> Ok("EmSparc32Plus")
    [] v = 19 -> Ok("Em960")
    [] v = 20 -> Ok("EmPpc")
    [] v = 21 -> Ok("EmPpc64")
    [] v = 22 -> Ok("EmS390")
    [] v = 62 -> Ok("EmX8664")
    [] v = 183 -> Ok("EmAarch64")
    [] v = 65280 -> Ok("EmLoProc")
    [] v = 65535 -> Ok("EmHiProc")
    [] OTHER -> Err("InvalidMachine", 376)

match_machine(v) ==
  CASE v = 0 -> Ok("EmNone")
    [] v = 1 -> Ok("EmM32")
    [] v = 2 -> Ok("EmSparc")
    [] v = 3 -> Ok("Em386")
    [] v = 4 -> Ok("Em68k")
    [] v = 5 -> Ok("Em88k")
    [] v = 7 -> Ok("Em860")
    [] v = 8 -> Ok("EmMips")
    [] v = 9 -> Ok("EmS370")
    [] v = 10 -> Ok("EmMipsRs3Le")
    [] v = 15 -> Ok("EmParisc")
    [] v = 17 -> Ok("EmVpp500")
    [] v = 18 -> Ok("EmSparc32Plus")
    [] v = 19 -> Ok("Em960")
    [] v = 20 -> Ok("EmPpc")
    [] v = 21 -> Ok("EmPpc64")
    [] v = 22 -> Ok("EmS390")
    [] v = 62 -> Ok("EmX8664")
    [] v = 183 -> Ok("EmAarch64")
    [] v = 243 -> Ok("EmRiscv")
    [] v = 65280 -> Ok("EmLoProc")
    [] v = 65535 -> Ok("EmHiProc")
    [] OTHER -> Err("InvalidMachine", 376)

match_elf_version(v) ==
  CASE v = <<0, 0>> -> Ok("EvNone")
    [] v = <<0, 1>> -> Ok("EvCurrent")
    [] OTHER -> Err("InvalidVersion", 383)

\* lines 386-421: the raw numeric fields and the record.
ElfHeader_build(b, ident, e_type, machine, version) ==
  IF \E i \in 24..63 : ~IndexOk(b, i) THEN Panic
  ELSE Ok([ident |-> ident,
           e_type |-> e_type,
           machine |-> machine,
           version |-> version,
           entry |-> u64_from_le_bytes(Slice(b, 24, 32)),
           phoff |-> u64_from_le_bytes(Slice(b, 32, 40)),
           shoff |-> u64_from_le_bytes(Slice(b, 40, 48)),
           flags |-> u32_from_le_bytes(Slice(b, 48, 52)),
           ehsize |-> u16_from_le_bytes(Slice(b, 52, 54)),
           phentsize |-> u16_from_le_bytes(Slice(b, 54, 56)),
           phnum |-> u16_from_le_bytes(Slice(b, 56, 58)),
           shentsize |-> u16_from_le_bytes(Slice(b, 58, 60)),
           shnum |-> u16_from_le_bytes(Slice(b, 60, 62)),
           shstrndx |-> u16_from_le_bytes(Slice(b, 62, 64))])

ElfHeader_from_bytes_type_first(b) ==
  IF ElfHeader_too_short(b) THEN Err("InvalidSize", 334)
  ELSE IF ~(IndexOk(b, 16) /\ IndexOk(b, 17)) THEN Panic
  ELSE LET e_type == match_e_type(u16_from_le_bytes(Slice(b, 16, 18))) IN
  IF e_type.tag = "Err" THEN e_type
  ELSE IF ~SliceOk(b, 0, 16) THEN Panic
  ELSE LET ident == EIdent_from_bytes(Slice(b, 0, 16)) IN
  IF ident.tag # "Ok" THEN ident
  ELSE IF ~(IndexOk(b, 18) /\ IndexOk(b, 19)) THEN Panic
  ELSE LET machine == match_machine(u16_from_le_bytes(Slice(b, 18, 20))) IN
  IF machine.tag = "Err" THEN machine
  ELSE IF \E i \in 20..23 : ~IndexOk(b, i) THEN Panic
  ELSE LET version == match_elf_version(u32_from_le_bytes(Slice(b, 20, 24))) IN
  IF version.tag = "Err" THEN version
  ELSE ElfHeader_build(b, ident.val, e_type.val, machine.val, version.val)

ElfHeader_from_bytes_map_err(b) ==
  IF ElfHeader_too_short(b) THEN Err("InvalidSize", 334)
  ELSE IF ~SliceOk(b, 0, 16) THEN Panic
  ELSE LET ident == EIdent_from_bytes(Slice(b, 0, 16)) IN
  IF ident.tag = "Err" THEN Err("InvalidMagic", 337)
  ELSE IF ident.tag # "Ok" THEN ident
  ELSE IF ~(IndexOk(b, 16) /\ IndexOk(b, 17)) THEN Panic
  ELSE LET e_type == match_e_type(u16_from_le_bytes(Slice(b, 16, 18))) IN
  IF e_type.tag = "Err" THEN e_type
  ELSE IF ~(IndexOk(b, 18) /\ IndexOk(b, 19)) THEN Panic
  ELSE LET machine == match_machine(u16_from_le_bytes(Slice(b, 18, 20))) IN
  IF machine.tag = "Err" THEN machine
  ELSE IF \E i \in 20..23 : ~IndexOk(b, i) THEN Panic
  ELSE LET version == match_elf_version(u32_from_le_bytes(Slice(b, 20, 24))) IN
  IF version.tag = "Err" THEN version
  ELSE ElfHeader_build(b, ident.val, e_type.val, machine.val, version.val)

ElfHeader_from_bytes(b) ==
  IF ElfHeader_too_short(b) THEN Err("InvalidSize", 334)
  ELSE IF ~SliceOk(b, 0, 16) THEN Panic
  ELSE LET ident == EIdent_from_bytes(Slice(b, 0, 16)) IN
  IF ident.tag # "Ok" THEN ident
  ELSE IF ~(IndexOk(b, 16) /\ IndexOk(b, 17)) THEN Panic
  ELSE LET e_type == match_e_type(u16_from_le_bytes(Slice(b, 16, 18))) IN
  IF e_type.tag = "Err" THEN e_type
  ELSE IF ~(IndexOk(b, 18) /\ IndexOk(b, 19)) THEN Panic
  ELSE LET machine == match_machine(u16_from_le_bytes(Slice(b, 18, 20))) IN
  IF machine.tag = "Err" THEN machine
  ELSE IF \E i \in 20..23 : ~IndexOk(b, i) THEN Panic
  ELSE LET version == match_elf_version(u32_from_le_bytes(Slice(b, 20, 24))) IN
  IF version.tag = "Err" THEN version
  ELSE ElfHeader_build(b, ident.val, e_type.val, machine.val, version.val)

\* line 375: the diagnostic written before the InvalidMachine return.
ElfHeader_eprintln(b, r) ==
  IF r.tag = "Err" /\ r.line = 376
  THEN <<[msg |-> "Unknown machine type",
          value |-> u16_from_le_bytes(Slice(b, 18, 20))]>>
  ELSE <<>>

----------------------------------------------------------------------------
\* The slices handed to the decoder.  Any sequence of bytes is a possible
\* argument; the ones explored are built from a well-formed header by
\* overwriting the bytes each check reads, one field or several at a time,
\* and by cutting the result to every length up to MaxLen.

\* A well-formed 64-byte header: ELF64, little-endian, executable, x86-64,
\* entry 0x401000, one 56-byte program header at offset 64.
WellFormed ==
  <<127, 69, 76, 70, 2, 1, 1, 0, 0, 0, 0, 0, 0, 0, 0, 0,
    2, 0, 62, 0, 1, 0, 0, 0,
    0, 16, 64, 0, 0, 0, 0, 0,
    64, 0, 0, 0, 0, 0, 0, 0,
    0, 0, 0, 0, 0, 0, 0, 0,
    0, 0, 0, 0,
    64, 0, 56, 0, 1, 0, 64, 0, 0, 0, 0, 0>>

\* The well-formed header followed by what comes next in the file.
Base == [i \in 1..MaxLen |-> IF i <= 64 THEN WellFormed[i] ELSE 170]

\* buf with the bytes at offsets off, off+1, ... replaced by those of s.
Patch(buf, off, s) ==
  [i \in 1..Len(buf) |->
     IF i > off /\ i <= off + Len(s) THEN s[i - off] ELSE buf[i]]

MagicChoices ==
  {ELFMAG, <<0, 69, 76, 70>>, <<127, 101, 76, 70>>, <<127, 69, 0, 70>>,
   <<127, 69, 76, 71>>}

\* Every combination of passing and failing checks.
Combos ==
  {m \o <<c, d, iv, os, 7>> \o SubSeq(Base, 10, 16) \o <<ty, 0, ma, 0, ve>>
     \o SubSeq(Base, 22, MaxLen) :
     m \in MagicChoices, c \in {2, 0}, d \in {1, 2, 3}, iv \in {1, 2},
     os \in {0, 4}, ty \in {2, 5}, ma \in {62, 6}, ve \in {1, 2}}

\* Every value of every single byte of the header, in both data encodings.
ByteSweep ==
  {Patch(b, o, <<v>>) :
     b \in {Base, Patch(Base, 5, <<2>>)}, o \in 0..63, v \in Byte}

\* Every 16-bit machine value.
MachineSweep == {Patch(Base, 18, <<lo, hi>>) : lo \in Byte, hi \in Byte}

TypeSweep == {Patch(Base, 16, <<lo, hi>>) : lo \in Byte, hi \in {0, 1, 255}}

VersionSweep ==
  {Patch(Base, 20, <<a, b, c, d>>) :
     a \in {0, 1, 2}, b \in {0, 1}, c \in {0, 1}, d \in {0, 1, 255}}

\* Raw fields: all-zero/all-one bytes within each field, and distinct bytes
\* in every position (any reordering of a field's bytes changes its value).
RawFields ==
  {<<24, 8>>, <<32, 8>>, <<40, 8>>, <<48, 4>>, <<52, 2>>, <<54, 2>>,
   <<56, 2>>, <<58, 2>>, <<60, 2>>, <<62, 2>>}

RawSweep ==
  UNION {{Patch(Base, f[1], s) : f \in RawFields, s \in [1..8 -> {0, 255}]},
         {Patch(Base, 24, <<120, 86, 52, 18, 0, 0, 0, 0>>)},
         {Patch(Base, 24, [i \in 1..40 |-> k + 5 * i]) : k \in {0, 50}}}

Prefixes(S) == {SubSeq(b, 1, n) : b \in S, n \in 0..MaxLen}

----------------------------------------------------------------------------
\* The state machine: a caller hands a slice to one of the two decoders.

Init ==
  /\ \/ bytes \in Prefixes(Combos)
     \/ bytes \in ByteSweep
     \/ bytes \in MachineSweep
     \/ bytes \in TypeSweep
     \/ bytes \in VersionSweep
     \/ bytes \in RawSweep
  /\ pc = "call"
  /\ callee = "none"
  /\ result = NoResult
  /\ stderr = <<>>

CallEIdent ==
  /\ pc = "call"
  /\ callee' = "EIdent"
  /\ result' = EIdent_from_bytes(bytes)
  /\ pc' = "done"
  /\ UNCHANGED <<bytes, stderr>>

CallElfHeader ==
  /\ pc = "call"
  /\ callee' = "ElfHeader"
  /\ result' = ElfHeader_from_bytes(bytes)
  /\ stderr' = stderr \o ElfHeader_eprintln(bytes, result')
  /\ pc' = "done"
  /\ UNCHANGED bytes

Next == CallEIdent \/ CallElfHeader

Spec == Init /\ [][Next]_vars

TypeOK ==
  /\ bytes \in Seq(Byte)
  /\ pc \in {"call", "done"}
  /\ callee \in {"none", "EIdent", "ElfHeader"}
  /\ result.tag \in {"None", "Ok", "Err", "Panic"}

----------------------------------------------------------------------------
\* Vocabulary of the properties, stated on the bytes of the slice alone.

IdentDone == pc = "done" /\ callee = "EIdent"

HeaderDone == pc = "done" /\ callee = "ElfHeader"

IsErr(r, kind) == r.tag = "Err" /\ r.err = kind

\* The byte at offset i of the slice.
B(i) == bytes[i + 1]

LE16(off) == B(off) + 256 * B(off + 1)

\* The little-endian value of the n bytes at off, as 16-bit limbs.
LELimbs(off, n) ==
  [k \in 1..(n \div 2) |-> B(off + n - 2 * k) + 256 * B(off + n - 2 * k + 1)]

ReservedOsAbiValues == {4, 5} \cup 19..254

NamedOsAbiValues == {0, 1, 2, 3} \cup 6..18 \cup {255}

TypeCodes == {0, 1, 2, 3, 4, 65280, 65535}

MachineCodes ==
  {0, 1, 2, 3, 4, 5, 7, 8, 9, 10, 15, 17, 18, 19, 20, 21, 22, 62, 183, 243,
   65280, 65535}

FailSize == Len(bytes) < 64

FailMagic == <<B(0), B(1), B(2), B(3)>> # <<127, 69, 76, 70>>

FailClass == B(4) \notin {1, 2}

FailData == B(5) \notin {1, 2}

FailIdentVersion == B(6) \notin {0, 1}

FailOsAbi == B(7) \in ReservedOsAbiValues

FailType == LE16(16) \notin TypeCodes

FailMachine == LE16(18) \notin MachineCodes

FailVersion == ~(B(20) \in {0, 1} /\ B(21) = 0 /\ B(22) = 0 /\ B(23) = 0)

IdentFieldsPass ==
  ~FailSize /\ ~FailMagic /\ ~FailClass /\ ~FailData /\ ~FailIdentVersion

IdentPasses == IdentFieldsPass /\ ~FailOsAbi

AllChecksPass == IdentPasses /\ ~FailType /\ ~FailMachine /\ ~FailVersion

\* The check a return statement belongs to.
CheckOfLine(line) ==
  CASE line = 334 -> "size"
    [] line = 141 -> "ident size"
    [] line = 146 -> "magic"
    [] line = 155 -> "class"
    [] line = 161 -> "data"
    [] line = 167 -> "ident version"
    [] line \in {175, 189} -> "os/abi"
    [] line = 347 -> "type"
    [] line = 376 -> "machine"
    [] line = 383 -> "version"
    [] OTHER -> "unknown"

\* The first failing check in the fixed order, with its error kind.
FirstFailing ==
  IF FailSize THEN <<"size", "InvalidSize">>
  ELSE IF FailMagic THEN <<"magic", "InvalidMagic">>
  ELSE IF FailClass THEN <<"class", "InvalidClass">>
  ELSE IF FailData THEN <<"data", "InvalidData">>
  ELSE IF FailIdentVersion THEN <<"ident version", "InvalidVersion">>
  ELSE IF FailOsAbi THEN <<"os/abi", "ReservedOsAbi">>
  ELSE IF FailType THEN <<"type", "InvalidType">>
  ELSE IF FailMachine THEN <<"machine", "InvalidMachine">>
  ELSE IF FailVersion THEN <<"version", "InvalidVersion">>
  ELSE <<"none", "none">>

----------------------------------------------------------------------------
\* C1: a slice shorter than 64 bytes, whatever it holds, makes
\* ElfHeader::from_bytes return InvalidSize, and no other kind.
C1_ShortIsInvalidSize ==
  (HeaderDone /\ Len(bytes) < 64) => IsErr(result, "InvalidSize")

\* A 63-byte slice with a wrong magic and a bad class byte got InvalidSize.
C1_Witness ==
  /\ HeaderDone
  /\ Len(bytes) = 63
  /\ FailMagic
  /\ FailClass
  /\ IsErr(result, "InvalidSize")

\* C2: with at least 64 bytes and a first word other than 7F 45 4C 46 the
\* header decoder returns InvalidMagic, whatever the other bytes are.
C2_BadMagicIsInvalidMagic ==
  (HeaderDone /\ ~FailSize /\ FailMagic) => IsErr(result, "InvalidMagic")

\* InvalidMagic was returned although class, data, version, OS/ABI, type
\* and machine were invalid as well.
C2_Witness ==
  /\ HeaderDone
  /\ ~FailSize
  /\ FailMagic
  /\ FailClass /\ FailData /\ FailIdentVersion /\ FailOsAbi
  /\ FailType /\ FailMachine /\ FailVersion
  /\ IsErr(result, "InvalidMagic")

\* C3: the header decoder reports exactly the error of the first failing
\* check in the order size, magic, class, data, identification version,
\* OS/ABI, type, machine, header version, and succeeds when none fails.
C3_FirstFailingCheckWins ==
  HeaderDone =>
    IF FirstFailing[1] = "none"
    THEN result.tag = "Ok"
    ELSE /\ IsErr(result, FirstFailing[2])
         /\ CheckOfLine(result.line) = FirstFailing[1]

\* The class check and three later checks fail; InvalidClass is reported.
C3_Witness ==
  /\ HeaderDone
  /\ ~FailSize /\ ~FailMagic
  /\ FailClass /\ FailOsAbi /\ FailMachine /\ FailVersion
  /\ IsErr(result, "InvalidClass")

\* C4: an error of EIdent::from_bytes on bytes 0..15 comes out of the header
\* decoder with the same kind, and on success the embedded identification
\* record is the one EIdent::from_bytes returned.
C4_IdentErrorTransparent ==
  (HeaderDone /\ ~FailSize) =>
    LET id == EIdent_from_bytes(SubSeq(bytes, 1, 16)) IN
      /\ id.tag \in {"Ok", "Err"}
      /\ id.tag = "Err" => result = id
      /\ id.tag = "Ok" => (result.tag = "Ok" => result.val.ident = id.val)

\* The identification decoder fails with InvalidData on a header whose type
\* and machine are invalid too, and the header decoder returns InvalidData.
C4_Witness ==
  /\ HeaderDone
  /\ ~FailSize
  /\ IsErr(EIdent_from_bytes(SubSeq(bytes, 1, 16)), "InvalidData")
  /\ FailType /\ FailMachine
  /\ IsErr(result, "InvalidData")

\* One slice failing each check alone.
Probes ==
  {Patch(Base, 0, <<0>>), Patch(Base, 4, <<0>>), Patch(Base, 5, <<0>>),
   Patch(Base, 6, <<2>>), Patch(Base, 7, <<4>>), Patch(Base, 7, <<19>>),
   Patch(Base, 16, <<5>>), Patch(Base, 18, <<6>>), Patch(Base, 20, <<2>>),
   SubSeq(Base, 1, 63)}

\* C5 as stated: the error kind determines the check that failed, that is,
\* any two failing slices with the same kind failed the same check.
C5_KindDeterminesCheck ==
  (HeaderDone /\ result.tag = "Err") =>
    \A p \in Probes :
      LET r == ElfHeader_from_bytes(p) IN
        (r.tag = "Err" /\ r.err = result.err) =>
          CheckOfLine(r.line) = CheckOfLine(result.line)

\* The checks that report each kind.
ChecksReporting(kind) ==
  CASE kind = "InvalidSize" -> {"size"}
    [] kind = "InvalidMagic" -> {"magic"}
    [] kind = "InvalidClass" -> {"class"}
    [] kind = "InvalidData" -> {"data"}
    [] kind = "InvalidVersion" -> {"ident version", "version"}
    [] kind = "ReservedOsAbi" -> {"os/abi"}
    [] kind = "InvalidType" -> {"type"}
    [] kind = "InvalidMachine" -> {"machine"}
    [] OTHER -> {}

\* C5 amended: every kind but InvalidVersion is reported by one check only;
\* InvalidVersion is reported by the identification version check and by
\* the header version check, and by no other.
C5_KindDeterminesCheckButVersion ==
  (HeaderDone /\ result.tag = "Err") =>
    /\ CheckOfLine(result.line) \in ChecksReporting(result.err)
    /\ result.err # "InvalidVersion" =>
         \A p \in Probes :
           LET r == ElfHeader_from_bytes(p) IN
             (r.tag = "Err" /\ r.err = result.err) =>
               CheckOfLine(r.line) = CheckOfLine(result.line)

\* InvalidVersion came from the header version check, while a slice with a
\* bad identification version byte gets the same kind from another check.
C5_Witness ==
  /\ HeaderDone
  /\ IsErr(result, "InvalidVersion")
  /\ CheckOfLine(result.line) = "version"
  /\ LET r == ElfHeader_from_bytes(Patch(Base, 6, <<2>>)) IN
       IsErr(r, "InvalidVersion") /\ CheckOfLine(r.line) = "ident version"

\* C6: with valid magic, class, data and identification version, byte 7 in
\* {4,5} or 19..254 gives ReservedOsAbi; each of the other 18 values gives
\* the tag whose discriminant is that value (3 is "GNU", 255 is "Standalone
\* (embedded) application"); InvalidOsAbi is never returned.
C6_OsAbiPartition ==
  /\ pc = "done" => ~IsErr(result, "InvalidOsAbi")
  /\ Cardinality(NamedOsAbiValues) = 18
  /\ NamedOsAbiValues \cup ReservedOsAbiValues = Byte
  /\ (pc = "done" /\ Len(bytes) >= (IF callee = "EIdent" THEN 16 ELSE 64)
        /\ ~FailMagic /\ ~FailClass /\ ~FailData /\ ~FailIdentVersion) =>
       IF B(7) \in ReservedOsAbiValues
       THEN IsErr(result, "ReservedOsAbi")
       ELSE /\ result.tag = "Err" =>
                 /\ callee = "ElfHeader"
                 /\ result.err \in {"InvalidType", "InvalidMachine", "InvalidVersion"}
            /\ result.tag = "Ok" =>
                 LET tag == IF callee = "EIdent" THEN result.val.os_abi
                            ELSE result.val.ident.os_abi IN
                   /\ IdentOSABI_repr(tag) = B(7)
                   /\ B(7) = 3 => IdentOSABI_fmt(tag) = "GNU"
                   /\ B(7) = 255 =>
                        IdentOSABI_fmt(tag) = "Standalone (embedded) application"

\* Byte 7 = 255 decoded to the standalone tag in a successful header.
C6_Witness ==
  /\ HeaderDone
  /\ ~FailSize
  /\ B(7) = 255
  /\ result.tag = "Ok"
  /\ IdentOSABI_fmt(result.val.ident.os_abi) = "Standalone (embedded) application"

\* C7: with a valid identification block and object type, the 16-bit
\* little-endian machine value is accepted exactly when it is one of the 22
\* codes; any other value gives InvalidMachine; 62 and 183 have the labels
\* "AMD x86-64 architecture" and "ARM AARCH64".
C7_MachineCodes ==
  /\ Cardinality(MachineCodes) = 22
  /\ (HeaderDone /\ IdentPasses /\ ~FailType) =>
       IF LE16(18) \in MachineCodes
       THEN /\ result.tag = "Err" => (FailVersion /\ result.err = "InvalidVersion")
            /\ result.tag = "Ok" =>
                 /\ ElfMachine_repr(result.val.machine) = LE16(18)
                 /\ LE16(18) = 62 =>
                      ElfMachine_fmt(result.val.machine) = "AMD x86-64 architecture"
                 /\ LE16(18) = 183 =>
                      ElfMachine_fmt(result.val.machine) = "ARM AARCH64"
            /\ result.tag \in {"Ok", "Err"}
       ELSE /\ IsErr(result, "InvalidMachine")
            /\ stderr = <<[msg |-> "Unknown machine type", value |-> LE16(18)]>>

\* Machine 0xFF01, next to the accepted 0xFF00, was rejected.
C7_Witness ==
  /\ HeaderDone
  /\ IdentPasses /\ ~FailType
  /\ LE16(18) = 65281
  /\ IsErr(result, "InvalidMachine")

\* C8: two slices that differ only in byte 5 being 1 or 2 fail with the same
\* kind or succeed with records equal in every field but data_encoding; the
\* multi-byte fields are little-endian under both tags.
C8_DataEncodingIgnored ==
  (HeaderDone /\ ~FailSize /\ B(5) \in {1, 2}) =>
    LET other == ElfHeader_from_bytes(Patch(bytes, 5, <<3 - B(5)>>)) IN
      \/ /\ result.tag = "Err"
         /\ other.tag = "Err"
         /\ other.err = result.err
      \/ /\ result.tag = "Ok"
         /\ other.tag = "Ok"
         /\ result.val.ident.data # other.val.ident.data
         /\ [result.val EXCEPT !.ident.data = "any"]
              = [other.val EXCEPT !.ident.data = "any"]
         /\ result.val.entry = LELimbs(24, 8)
         /\ result.val.ehsize = LE16(52)
         /\ ElfMachine_repr(result.val.machine) = LE16(18)

\* A header tagged big-endian decoded, with a header size whose two bytes
\* differ, so that the byte order shows.
C8_Witness ==
  /\ HeaderDone
  /\ ~FailSize
  /\ B(5) = 2
  /\ result.tag = "Ok"
  /\ result.val.ident.data = "ELFDATA2MSB"
  /\ B(52) # B(53)
  /\ result.val.ehsize = LE16(52)

IdentFields == {"magic", "class", "data", "version", "os_abi", "abi_version"}

HeaderFields ==
  {"ident", "e_type", "machine", "version", "entry", "phoff", "shoff",
   "flags", "ehsize", "phentsize", "phnum", "shentsize", "shnum", "shstrndx"}

\* C9: for a slice of any length and content both decoders return a fully
\* populated record or one ElfParseError; no index at or beyond the length
\* of the slice is read (no panic).
C9_TotalNoPanic ==
  pc = "done" =>
    /\ result.tag # "Panic"
    /\ result.tag \in {"Ok", "Err"}
    /\ result.tag = "Err" => result.err \in ElfParseError
    /\ (result.tag = "Ok" /\ callee = "EIdent") =>
         DOMAIN result.val = IdentFields
    /\ (result.tag = "Ok" /\ callee = "ElfHeader") =>
         /\ DOMAIN result.val = HeaderFields
         /\ DOMAIN result.val.ident = IdentFields

\* EIdent::from_bytes was given 9 bytes, enough for every byte it reads
\* but fewer than 16, and returned InvalidSize.
C9_Witness ==
  /\ IdentDone
  /\ Len(bytes) = 9
  /\ ~FailMagic
  /\ IsErr(result, "InvalidSize")

\* C10: a slice that passes every check decodes, whatever its raw fields
\* hold, with abi_version = byte 8 and each raw field the little-endian value
\* of its bytes; 78 56 34 12 00 00 00 00 at offset 24 is entry 0x12345678.
C10_RawFieldsLittleEndian ==
  (HeaderDone /\ AllChecksPass) =>
    /\ result.tag = "Ok"
    /\ result.val.ident.abi_version = B(8)
    /\ result.val.entry = LELimbs(24, 8)
    /\ result.val.phoff = LELimbs(32, 8)
    /\ result.val.shoff = LELimbs(40, 8)
    /\ result.val.flags = LELimbs(48, 4)
    /\ result.val.ehsize = LE16(52)
    /\ result.val.phentsize = LE16(54)
    /\ result.val.phnum = LE16(56)
    /\ result.val.shentsize = LE16(58)
    /\ result.val.shnum = LE16(60)
    /\ result.val.shstrndx = LE16(62)
    /\ SubSeq(bytes, 25, 32) = <<120, 86, 52, 18, 0, 0, 0, 0>> =>
         result.val.entry = <<0, 0, 4660, 22136>>

\* The example of the claim was decoded.
C10_Witness ==
  /\ HeaderDone
  /\ ~FailSize
  /\ SubSeq(bytes, 25, 32) = <<120, 86, 52, 18, 0, 0, 0, 0>>
  /\ result.tag = "Ok"
  /\ result.val.entry = <<0, 0, 4660, 22136>>

====
